---------------------------- MODULE Spec2Model ----------------------------
(***************************************************************************)
(* A model of the reinforcement-learning trading decision engine           *)
(* (KennethWang1/Stock-AI): the portfolio environment, the experience      *)
(* replay buffer, the session tracker, the state representation builder    *)
(* and the daily decision cycle of main.py / trading/live_trader.py.       *)
(*                                                                         *)
(* Numbers.  Python floats are carried as exact rationals:                 *)
(*   - an action is an integer number of hundredths (60 is 0.6), so that   *)
(*     the dead-zone bounds -0.1 and 0.1 are the integers -10 and 10;      *)
(*   - cash and prices are whole currency units;                           *)
(*   - a reward (a percentage) is a fraction [num, den] with den > 0.      *)
(* Rounding of binary floating point is outside the model.                 *)
(***************************************************************************)
EXTENDS Integers, Sequences, FiniteSets, TLC

VARIABLES
    \* ---- trading/environment.py: one PortfolioEnvironment --------------
    envCash,        \* self.cash
    envShares,      \* self.shares
    envCall,        \* the arguments and pre-state of the last execute_action
    envRes,         \* what the last execute_action produced
    envCalls,       \* number of execute_action calls made so far
    \* ---- trading/buffer.py: one ExperienceReplayBuffer and its file -----
    bufCapacity,    \* self.capacity
    bufBuffer,      \* self.buffer, oldest first
    bufFile,        \* the pickle file at filepath
    bufOp,          \* the last operation: its name, argument, pre-state, result
    bufSaved,       \* what the last save() of this buffer wrote, if the file
                    \* still holds it
    \* ---- trading_tracker.py: the session file and the local clock -------
    trkDay,         \* date.today(), as an index into Calendar
    trkFile,        \* TRADING_LOG_FILE
    trkOp,          \* the last operation: its name, arguments, pre-state, result
    trkRecorded,    \* the days record_trading_session ran on since the file
                    \* was last absent
    \* ---- utils/data_preprocessing.py: one create_state_representation --
    sbIn,           \* the arguments of the call
    sbOut,          \* the state it returned, once it has
    \* ---- main.py / trading/live_trader.py: the daily decision cycle -----
    clock,          \* date.today(), as an index into Calendar
    bufferFile,     \* EXPERIENCE_BUFFER_FILE
    sessionFile,    \* TRADING_LOG_FILE
    portfolioFile,  \* PORTFOLIO_FILE
    last,           \* the last run of main(): how it ended and what
                    \* make_live_trading_decision returned to it
    appended,       \* per day, the transitions the saved buffer gained on it
    firstSize,      \* per date, the size of the buffer handle that the
                    \* decision recorded under that date returned (-1: none)
    \* ---- single calls of the loaders and of the decision policies, and
    \*      invocations of main() running side by side -------------------
    callIn,         \* the function called and its arguments
    callOut         \* what the call produced, once it has; for main()
                    \* side by side: each invocation's position and locals

envVars == <<envCash, envShares, envCall, envRes, envCalls>>

bufVars == <<bufCapacity, bufBuffer, bufFile, bufOp, bufSaved>>

trkVars == <<trkDay, trkFile, trkOp, trkRecorded>>

sbVars == <<sbIn, sbOut>>

cycVars == <<clock, bufferFile, sessionFile, portfolioFile, last, appended,
             firstSize>>

fnVars == <<callIn, callOut>>

vars == <<envVars, bufVars, trkVars, sbVars, cycVars, fnVars>>

---------------------------------------------------------------------------
(* Arithmetic helpers                                                      *)

Scale == 10 * 10            \* actions are carried in hundredths

Abs(x) == IF x < 0 THEN -x ELSE x

Min(x, y) == IF x <= y THEN x ELSE y

Max(x, y) == IF x >= y THEN x ELSE y

\* Python's int(n / d) for d > 0: truncation toward zero.
IntTrunc(n, d) == IF n >= 0 THEN n \div d ELSE -((-n) \div d)

\* Equality of two fractions with positive denominators.
RatEq(x, y) == x.num * y.den = y.num * x.den

\* x - y as a fraction.
RatSub(x, y) == [num |-> x.num * y.den - y.num * x.den, den |-> x.den * y.den]

---------------------------------------------------------------------------
(* trading/environment.py: PortfolioEnvironment                            *)

\* The dead-zone threshold 0.1 of execute_action, in hundredths.
HoldThreshold == Scale \div 10

\* hold_penalty = -0.1 as a fraction.
HoldPenalty == [num |-> -1, den |-> 10]

get_portfolio_value(cash, shares, price) == cash + shares * price

max_affordable_shares_ceil(cash, open_price) ==
    IF open_price > 0 THEN (cash + open_price - 1) \div open_price ELSE 0

max_affordable_shares(cash, open_price) ==
    IF open_price > 0 THEN IntTrunc(cash, open_price) ELSE 0

shares_to_buy(action, max_affordable) ==
    Min(IntTrunc(action * max_affordable, Scale), max_affordable)

shares_to_sell_rounded(action, max_sellable) ==
    Min((Abs(action) * max_sellable + Scale \div 2) \div Scale, max_sellable)

shares_to_sell(action, max_sellable) ==
    Min(IntTrunc(Abs(action) * max_sellable, Scale), max_sellable)

\* action_bonus = abs(action) * 0.5, in units of 1/200 (of a percent).
action_bonus(action) == IF Abs(action) > HoldThreshold THEN Abs(action) ELSE 0

\* The division of line 48 by current_portfolio_value_end_day = 0 has two
\* outcomes, by the type of the operands: Python floats raise
\* ZeroDivisionError, numpy scalars give nan (0/0) or inf (x/0).
ZeroDivOutcomes == {"raise", "nonfinite"}

\* a trade settled at the close price instead of the open price
execute_action_settled_at_close(cash, shares, action, open_price, close_price, zdiv) ==
    LET baseline   == get_portfolio_value(cash, shares, close_price)
        affordable == max_affordable_shares(cash, open_price)
        wantBuy    == IF action > HoldThreshold
                      THEN shares_to_buy(action, affordable) ELSE 0
        bought     == IF wantBuy > 0 THEN wantBuy ELSE 0
        wantSell   == IF action <= HoldThreshold /\ action < -HoldThreshold
                      THEN shares_to_sell(action, shares) ELSE 0
        sold       == IF wantSell > 0 THEN wantSell ELSE 0
        cash2      == cash - bought * close_price + sold * close_price
        shares2    == shares + bought - sold
        valueEnd   == get_portfolio_value(cash2, shares2, close_price)
        hold       == action <= HoldThreshold /\ action >= -HoldThreshold
    IN  [cash      |-> cash2,
         shares    |-> shares2,
         bought    |-> bought,
         sold      |-> sold,
         outcome   |-> IF baseline = 0 /\ zdiv = "raise"
                       THEN "raised" ELSE "returned",
         kind      |-> IF baseline # 0 THEN "finite" ELSE "nan",
         reward    |-> [num |-> 0, den |-> 1],
         bonus     |-> action_bonus(action),
         hold      |-> hold,
         value     |-> valueEnd]

execute_action(cash, shares, action, open_price, close_price, zdiv) ==
    LET baseline   == get_portfolio_value(cash, shares, close_price)
        affordable == max_affordable_shares(cash, open_price)
        sellable   == shares
        wantBuy    == IF action > HoldThreshold
                      THEN shares_to_buy(action, affordable) ELSE 0
        bought     == IF wantBuy > 0 THEN wantBuy ELSE 0
        wantSell   == IF action <= HoldThreshold /\ action < -HoldThreshold
                      THEN shares_to_sell(action, sellable) ELSE 0
        sold       == IF wantSell > 0 THEN wantSell ELSE 0
        cash2      == cash - bought * open_price + sold * open_price
        shares2    == shares + bought - sold
        valueEnd   == get_portfolio_value(cash2, shares2, close_price)
        bonus      == action_bonus(action)
        hold       == action <= HoldThreshold /\ action >= -HoldThreshold
        \* reward = base% + bonus/200 - (0.1 if hold), over the den baseline*200
        num        == (valueEnd - baseline) * 100 * 200
                      + bonus * baseline
                      + (IF hold THEN -20 * baseline ELSE 0)
        kind       == IF baseline # 0 THEN "finite"
                      ELSE IF valueEnd - baseline = 0 THEN "nan" ELSE "inf"
    IN  [cash      |-> cash2,
         shares    |-> shares2,
         bought    |-> bought,
         sold      |-> sold,
         outcome   |-> IF baseline = 0 /\ zdiv = "raise"
                       THEN "raised" ELSE "returned",
         kind      |-> kind,
         reward    |-> IF baseline # 0
                       THEN [num |-> num, den |-> baseline * 200]
                       ELSE [num |-> 0, den |-> 1],
         bonus     |-> bonus,
         hold      |-> hold,
         value     |-> valueEnd]

---------------------------------------------------------------------------
(* The environment on its own: a PortfolioEnvironment is constructed with  *)
(* some cash and shares and execute_action is called on it.                *)

MaxEnvCalls == 2

CashValues == {0, 7, 1500}

ShareValues == {0, 3}

PriceValues == {0, 7, 10}

ActionValues == {-100, -60, -11, -10, 0, 10, 11, 60, 100}

NoCall == [made |-> FALSE]

NoRes == [outcome |-> "none"]

EnvIdle ==
    /\ envCash = 0 /\ envShares = 0 /\ envCall = NoCall
    /\ envRes = NoRes /\ envCalls = 0

EnvStart ==
    /\ envCash \in CashValues
    /\ envShares \in ShareValues
    /\ envCall = NoCall
    /\ envRes = NoRes
    /\ envCalls = 0

EnvExecute(action, open_price, close_price, zdiv) ==
    LET r == execute_action(envCash, envShares, action, open_price,
                            close_price, zdiv)
    IN  /\ envCalls < MaxEnvCalls
        /\ envCall' = [made |-> TRUE, cash |-> envCash, shares |-> envShares,
                       action |-> action, open |-> open_price,
                       close |-> close_price]
        /\ envRes' = r
        /\ envCash' = r.cash
        /\ envShares' = r.shares
        /\ envCalls' = envCalls + 1

EnvExecuteAction ==
    \E action \in ActionValues, open_price \in PriceValues,
       close_price \in PriceValues :
        \E zdiv \in IF get_portfolio_value(envCash, envShares, close_price) = 0
                    THEN ZeroDivOutcomes ELSE {"raise"} :
            EnvExecute(action, open_price, close_price, zdiv)

---------------------------------------------------------------------------
(* trading/buffer.py: ExperienceReplayBuffer                               *)
(*                                                                         *)
(* A state is the mapping the buffer looks into: of its arrays only the    *)
(* shapes matter to the buffer, so 'stock_history' and 'news_articles' are *)
(* carried as their numpy shapes.  A state may lack a key.                 *)

MAX_DAYS_HISTORY == 180

MAX_NEWS_PER_DAY == 5

NumStockFeatures == 12

NumNewsFeatures == 3

GoodState ==
    [stock_history |-> <<MAX_DAYS_HISTORY, NumStockFeatures>>,
     news_articles |-> <<MAX_DAYS_HISTORY, MAX_NEWS_PER_DAY, NumNewsFeatures>>]

\* A state built under another MAX_DAYS_HISTORY.
BadStockState ==
    [stock_history |-> <<MAX_DAYS_HISTORY \div 2, NumStockFeatures>>,
     news_articles |-> <<MAX_DAYS_HISTORY, MAX_NEWS_PER_DAY, NumNewsFeatures>>]

\* A state built under another MAX_NEWS_PER_DAY.
BadNewsState ==
    [stock_history |-> <<MAX_DAYS_HISTORY, NumStockFeatures>>,
     news_articles |-> <<MAX_DAYS_HISTORY, MAX_NEWS_PER_DAY - 2, NumNewsFeatures>>]

\* A state without the 'news_articles' key.
NoNewsKeyState ==
    [stock_history |-> <<MAX_DAYS_HISTORY, NumStockFeatures>>]

validate_any_shape(state) == TRUE

validate_state_shape(state) ==
    IF "stock_history" \notin DOMAIN state THEN FALSE              \* KeyError
    ELSE IF state.stock_history # <<MAX_DAYS_HISTORY, NumStockFeatures>> THEN FALSE
    ELSE IF "news_articles" \notin DOMAIN state THEN FALSE         \* KeyError
    ELSE IF state.news_articles
            # <<MAX_DAYS_HISTORY, MAX_NEWS_PER_DAY, NumNewsFeatures>> THEN FALSE
    ELSE TRUE

Experience(state, action, reward, next_state, done) ==
    [state |-> state, action |-> action, reward |-> reward,
     next_state |-> next_state, done |-> done]

incompatible_experience(exp) ==
    ~(validate_state_shape(exp.state) /\ validate_state_shape(exp.next_state))

\* load: the test an entry of the file passes to be kept
compatible_experience(exp) ==
    validate_state_shape(exp.state) /\ validate_state_shape(exp.next_state)

\* The last n elements of a sequence (all of it when it is shorter).
LastN(seq, n) ==
    IF Len(seq) <= n THEN seq ELSE SubSeq(seq, Len(seq) - n + 1, Len(seq))

list_append(buffer, exp, capacity) == Append(buffer, exp)

\* collections.deque(maxlen=capacity).append
deque_append(buffer, exp, capacity) ==
    IF capacity = 0 THEN buffer
    ELSE IF Len(buffer) >= capacity THEN Append(Tail(buffer), exp)
    ELSE Append(buffer, exp)

\* collections.deque(items, maxlen=capacity)
deque_from(items, capacity) == LastN(items, capacity)

add_nothing(buffer, capacity, exp) == buffer

add_experience(buffer, capacity, exp) ==
    IF ~validate_state_shape(exp.state) \/ ~validate_state_shape(exp.next_state)
    THEN buffer
    ELSE deque_append(buffer, exp, capacity)

\* Sequences of batch_size indices drawn with replacement.
choice_with_replacement(n, batch_size) == [1..batch_size -> 1..n]

\* np.random.choice(n, batch_size, replace=False): the possible draws.
choice_without_replacement(n, batch_size) ==
    {ix \in [1..batch_size -> 1..n] :
        \A i, j \in 1..batch_size : i # j => ix[i] # ix[j]}

\* sample_batch: the index draws it may return the entries of; when the
\* buffer is smaller than batch_size it is the whole buffer in order.
sample_indices(n, batch_size) ==
    IF n < batch_size THEN {[i \in 1..n |-> i]}
    ELSE choice_without_replacement(n, batch_size)

sample_batch(buffer, indices) == [i \in 1..Len(indices) |-> buffer[indices[i]]]

\* The pickle file: absent, unreadable, or a pickled list.
AbsentFile == [kind |-> "absent"]

CorruptFile == [kind |-> "corrupt"]

ListFile(items) == [kind |-> "list", data |-> items]

\* save: pickle.dump(list(self.buffer))
save(buffer) == ListFile(buffer)

\* load: the buffer it leaves
load(buffer, capacity, file) ==
    IF file.kind = "absent" THEN buffer                 \* FileNotFoundError
    ELSE IF file.kind = "corrupt" THEN <<>>             \* except Exception
    ELSE deque_from(SelectSeq(file.data, compatible_experience), capacity)

---------------------------------------------------------------------------
(* The buffer on its own: a buffer of some capacity, and the operations    *)
(* add_experience, sample_batch, save, load and clear in any order.        *)

MaxCapacity == 3

MaxBatch == 2

\* The experiences offered to add_experience: two that satisfy the shape
\* contract, told apart by their action and reward, and three that do not.
ValidPool ==
    {Experience(GoodState, a, -a, GoodState, FALSE) : a \in {30, 60}}

InvalidPool ==
    {Experience(BadStockState, 0, 0, GoodState, FALSE),
     Experience(GoodState, 0, 0, BadNewsState, FALSE),
     Experience(NoNewsKeyState, 0, 0, GoodState, FALSE)}

\* A file left by an earlier configuration: longer than any capacity here,
\* with an incompatible entry in it.
OldFile ==
    ListFile([i \in 1..(MaxCapacity + 2) |->
                IF i = 2 THEN Experience(BadStockState, 0, 0, GoodState, FALSE)
                ELSE Experience(GoodState, 30 * ((i % 2) + 1), -i, GoodState, FALSE)])

NoOp == [op |-> "none"]

NotSaved == [valid |-> FALSE]

BufIdle ==
    /\ bufCapacity = 0 /\ bufBuffer = <<>> /\ bufFile = AbsentFile
    /\ bufOp = NoOp /\ bufSaved = NotSaved

BufStart ==
    /\ bufCapacity \in 1..MaxCapacity
    /\ bufBuffer = <<>>
    /\ bufFile \in {AbsentFile, CorruptFile, OldFile}
    /\ bufOp = NoOp
    /\ bufSaved = NotSaved

BufAdd ==
    \E exp \in ValidPool \cup InvalidPool :
        /\ bufBuffer' = add_experience(bufBuffer, bufCapacity, exp)
        /\ bufOp' = [op |-> "add", pre |-> bufBuffer, exp |-> exp]
        /\ UNCHANGED <<bufCapacity, bufFile, bufSaved>>

BufSample ==
    \E batch_size \in 0..MaxBatch :
        \E indices \in sample_indices(Len(bufBuffer), batch_size) :
            /\ bufOp' = [op |-> "sample", pre |-> bufBuffer,
                         batch_size |-> batch_size, indices |-> indices,
                         batch |-> sample_batch(bufBuffer, indices)]
            /\ UNCHANGED <<bufCapacity, bufBuffer, bufFile, bufSaved>>

BufSave ==
    /\ bufFile' = save(bufBuffer)
    /\ bufSaved' = [valid |-> TRUE, data |-> bufBuffer]
    /\ bufOp' = [op |-> "save", pre |-> bufBuffer]
    /\ UNCHANGED <<bufCapacity, bufBuffer>>

BufLoad ==
    /\ bufBuffer' = load(bufBuffer, bufCapacity, bufFile)
    /\ bufOp' = [op |-> "load", pre |-> bufBuffer]
    /\ UNCHANGED <<bufCapacity, bufFile, bufSaved>>

BufClear ==
    /\ bufBuffer' = <<>>
    /\ bufOp' = [op |-> "clear", pre |-> bufBuffer]
    /\ UNCHANGED <<bufCapacity, bufFile, bufSaved>>

---------------------------------------------------------------------------
(* trading_tracker.py                                                      *)

\* The local calendar dates the clock passes through, in order.
Calendar ==
    << [year |-> 2025, month |-> 1,  day |-> 11],
       [year |-> 2025, month |-> 11, day |-> 1],
       [year |-> 2025, month |-> 11, day |-> 2],
       [year |-> 2025, month |-> 11, day |-> 3] >>

\* date.strftime('%Y-%m-%d'): the year, then month and day as two digits
\* each (the '-' separators sit at fixed places and are left out).
strftime_ymd(date) ==
    <<date.year, date.month \div 10, date.month % 10,
      date.day \div 10, date.day % 10>>

get_today_session_id(day) == strftime_ymd(Calendar[day])

\* A JSON object is a sequence of [key, value] members in insertion order.
HasKey(members, key) == \E i \in DOMAIN members : members[i].key = key

dict_append(members, key, value) ==
    Append(members, [key |-> key, value |-> value])

\* sessions[key] = value
dict_set(members, key, value) ==
    IF HasKey(members, key)
    THEN [i \in DOMAIN members |->
            IF members[i].key = key THEN [key |-> key, value |-> value]
            ELSE members[i]]
    ELSE Append(members, [key |-> key, value |-> value])

NoSessionFile == [kind |-> "absent"]

SessionFile(members) == [kind |-> "dict", members |-> members]

has_traded_never(file, day) == FALSE

\* has_traded_today, on the day the clock shows
has_traded_today(file, day) ==
    IF file.kind = "absent" THEN FALSE                  \* FileNotFoundError
    ELSE HasKey(file.members, get_today_session_id(day))

\* session_data (the timestamp, which nothing reads, is left out)
session_data(day, action, reward, portfolio_value) ==
    [date |-> get_today_session_id(day), action |-> action,
     reward |-> reward, portfolio_value |-> portfolio_value]

\* record_trading_session: the file it writes
record_trading_session(file, day, action, reward, portfolio_value) ==
    LET sessions == IF file.kind = "absent" THEN <<>> ELSE file.members
    IN  SessionFile(dict_set(sessions, get_today_session_id(day),
                             session_data(day, action, reward, portfolio_value)))

\* clear_trading_history: os.remove when the file exists
clear_trading_history(file) == NoSessionFile

---------------------------------------------------------------------------
(* The tracker on its own: the clock moves on from day to day and          *)
(* has_traded_today, record_trading_session and clear_trading_history are  *)
(* called in any order.                                                    *)

MaxDay == 3

SessionActions == {-60, 60}

SessionValues == {1500, 1620}

TrkIdle ==
    /\ trkDay = 1 /\ trkFile = NoSessionFile /\ trkOp = NoOp
    /\ trkRecorded = {}

TrkStart ==
    /\ trkDay = 1
    /\ trkFile \in {NoSessionFile, SessionFile(<<>>)}
    /\ trkOp = NoOp
    /\ trkRecorded = {}

TrkTick ==
    /\ trkDay < MaxDay
    /\ trkDay' = trkDay + 1
    /\ trkOp' = [op |-> "tick"]
    /\ UNCHANGED <<trkFile, trkRecorded>>

TrkHasTraded ==
    /\ trkOp' = [op |-> "has_traded", day |-> trkDay,
                 result |-> has_traded_today(trkFile, trkDay)]
    /\ UNCHANGED <<trkDay, trkFile, trkRecorded>>

TrkRecord ==
    \E action \in SessionActions, portfolio_value \in SessionValues :
        /\ trkFile' = record_trading_session(trkFile, trkDay, action,
                                             -action, portfolio_value)
        /\ trkOp' = [op |-> "record", day |-> trkDay, pre |-> trkFile,
                     action |-> action, reward |-> -action,
                     portfolio_value |-> portfolio_value]
        /\ trkRecorded' = trkRecorded \cup {trkDay}
        /\ UNCHANGED trkDay

TrkClear ==
    /\ trkFile' = clear_trading_history(trkFile)
    /\ trkOp' = [op |-> "clear"]
    /\ trkRecorded' = {}
    /\ UNCHANGED trkDay

---------------------------------------------------------------------------
(* utils/data_preprocessing.py: create_state_representation                *)
(*                                                                         *)
(* A two-dimensional array is [rows, cols]: the sequence of its rows and   *)
(* its number of columns.  A row of the stock matrix is carried as the     *)
(* position (1 = oldest) of the history row it came from and whether the   *)
(* scaler was applied to it; a padding row is ZeroRow.  The news tensor is *)
(* its shape and the set of <<day, slot>> cells an article was written to. *)

STOCK_FEATURES ==
    <<"open", "high", "low", "close", "volume", "price_change", "price_range",
      "volume_normalized", "sma_5", "sma_20", "rsi", "volatility">>

ZeroRow == [src |-> 0, scaled |-> FALSE]

Zeros(n) == [i \in 1..n |-> 0]

Ones(n) == [i \in 1..n |-> 1]

ZeroRows(n) == [i \in 1..n |-> ZeroRow]

\* seq[-n:] of Python for n >= 0 (seq[-0:] is all of seq)
Tail_n(seq, n) ==
    IF n = 0 \/ n >= Len(seq) THEN seq
    ELSE SubSeq(seq, Len(seq) - n + 1, Len(seq))

Shape2(array) == <<Len(array.rows), array.cols>>

\* prepare_daily_news: news_by_day maps a days-ago value to the number of
\* articles of that day; the tensor is np.zeros((H, N, 3)) with the first
\* at most N articles of each day 0..H-1 written in.
prepare_daily_news(news_by_day) ==
    LET days   == DOMAIN news_by_day \cap 0..(MAX_DAYS_HISTORY - 1)
        filled == UNION {{<<day, slot>> :
                             slot \in 1..Min(news_by_day[day], MAX_NEWS_PER_DAY)} :
                         day \in days}
    IN  [articles |-> [shape |-> <<MAX_DAYS_HISTORY, MAX_NEWS_PER_DAY, NumNewsFeatures>>,
                       filled |-> filled],
         mask     |-> [shape |-> <<MAX_DAYS_HISTORY, MAX_NEWS_PER_DAY>>,
                       filled |-> filled]]

\* lines 122-126, when the window is shorter than MAX_DAYS_HISTORY
pad_rows_right(stock_rows) ==
    stock_rows \o ZeroRows(MAX_DAYS_HISTORY - Len(stock_rows))

pad_rows_left(stock_rows) ==
    ZeroRows(MAX_DAYS_HISTORY - Len(stock_rows)) \o stock_rows

\* lines 127-129, when the window is longer than MAX_DAYS_HISTORY
truncate_to_recent(seq) == Tail_n(seq, MAX_DAYS_HISTORY)

\* df_rows: the length of df_history; stock_mask: a 0/1 sequence;
\* fundamental_features: their number; the result is the state mapping.
create_state_representation(df_rows, fundamental_features, daily_news, stock_mask, portfolio_cash, portfolio_shares, current_price) ==
    LET current_data_length == df_rows
        current_mask == IF Len(stock_mask) >= current_data_length
                        THEN Tail_n(stock_mask, current_data_length)
                        ELSE Ones(current_data_length)
        fitted == \E i \in DOMAIN current_mask : current_mask[i] = 1
        stock_data == [i \in 1..df_rows |-> [src |-> i, scaled |-> fitted]]
        stock_rows == IF Len(stock_data) < MAX_DAYS_HISTORY
                      THEN pad_rows_left(stock_data)
                      ELSE IF Len(stock_data) > MAX_DAYS_HISTORY
                      THEN truncate_to_recent(stock_data)
                      ELSE stock_data
        mask_rows  == IF Len(stock_data) < MAX_DAYS_HISTORY
                      THEN Zeros(MAX_DAYS_HISTORY - Len(current_mask)) \o current_mask
                      ELSE IF Len(stock_data) > MAX_DAYS_HISTORY
                      THEN truncate_to_recent(current_mask)
                      ELSE current_mask
        portfolio_total_value == portfolio_cash + portfolio_shares * current_price
    IN  [stock_history    |-> [rows |-> stock_rows, cols |-> Len(STOCK_FEATURES)],
         stock_mask       |-> mask_rows,
         \* a single-sample MinMaxScaler maps every feature to 0
         fundamentals     |-> Zeros(fundamental_features),
         news_articles    |-> daily_news.articles,
         news_mask        |-> daily_news.mask,
         portfolio_cash   |-> [num |-> portfolio_cash,
                               den |-> Max(portfolio_total_value, 1)],
         portfolio_shares |-> [num |-> portfolio_shares * current_price,
                               den |-> Max(portfolio_total_value, 1)],
         current_price    |-> [num |-> current_price,
                               den |-> Max(current_price, 1)]]

---------------------------------------------------------------------------
(* The state builder on its own: one call on a history window of 1 to      *)
(* MaxWindow rows (every caller passes at least one row), a mask that is   *)
(* shorter than, as long as or longer than the window, and some news.      *)

MaxWindow == 182

\* stock_mask as prepare_rl_data builds it: zeros, then ones for the real days
MaskOf(len, real_days) ==
    [i \in 1..len |-> IF i > len - real_days THEN 1 ELSE 0]

MaskInputs ==
    {MaskOf(MAX_DAYS_HISTORY, MAX_DAYS_HISTORY), MaskOf(MAX_DAYS_HISTORY, 80),
     MaskOf(MAX_DAYS_HISTORY, 0), MaskOf(MAX_DAYS_HISTORY + 20, 100),
     MaskOf(60, 60), <<>>}

\* days-ago |-> number of articles; day 200 is beyond the tensor
NewsInputs ==
    {<<>>, (0 :> 2) @@ (1 :> 7) @@ (179 :> 5) @@ (200 :> 1)}

SbIdle == sbIn = [made |-> FALSE] /\ sbOut = [made |-> FALSE]

SbStart ==
    /\ sbIn \in [made : {TRUE}, df_rows : 1..MaxWindow,
                 stock_mask : MaskInputs, news : NewsInputs,
                 fundamental_features : {0, 4},
                 cash : {1500}, shares : {0, 3}, price : {10}]
    /\ sbOut = [made |-> FALSE]

SbBuild ==
    /\ sbIn.made /\ ~sbOut.made
    /\ sbOut' = [made |-> TRUE,
                 state |-> create_state_representation(
                               sbIn.df_rows, sbIn.fundamental_features,
                               prepare_daily_news(sbIn.news), sbIn.stock_mask,
                               sbIn.cash, sbIn.shares, sbIn.price)]
    /\ UNCHANGED sbIn

---------------------------------------------------------------------------
(* main.py and trading/live_trader.py: the daily decision cycle            *)

BUFFER_SIZE == 50

DEFAULT_INITIAL_CASH == 1500

DEFAULT_INITIAL_SHARES == 0

MIN_HISTORICAL_DATA_POINTS == 50

\* live_trader.py line 108: train once the buffer holds this many
MinTrainSize == 10

\* the number of days the clock of the decision cycle passes through
LastDay == 2

NoPortfolioFile == [kind |-> "absent"]

NoTradeStatus == "no_trade_today_already_completed"

\* the JSON object both writers of PORTFOLIO_FILE dump; status is "" when
\* the object has no 'status' member
PortfolioJson(total_value, cash, shares, current_price, status) ==
    [kind |-> "json", total_value |-> total_value, cash |-> cash,
     shares |-> shares, current_price |-> current_price, status |-> status]

\* portfolio_data.get(key, default)
dict_get(data, key, default) == IF key \in DOMAIN data THEN data[key] ELSE default

load_initial_portfolio_unguarded(file) ==
    IF file.kind = "absent"
    THEN [cash |-> DEFAULT_INITIAL_CASH, shares |-> DEFAULT_INITIAL_SHARES]
    ELSE [cash   |-> dict_get(file, "cash", DEFAULT_INITIAL_CASH),
          shares |-> dict_get(file, "shares", DEFAULT_INITIAL_SHARES)]

\* live_trader.load_initial_portfolio, on a file that is absent or holds a
\* JSON object
load_initial_portfolio(file) ==
    IF file.kind = "absent"
    THEN [cash |-> DEFAULT_INITIAL_CASH, shares |-> DEFAULT_INITIAL_SHARES]
    ELSE LET cash   == dict_get(file, "cash", DEFAULT_INITIAL_CASH)
             shares == dict_get(file, "shares", DEFAULT_INITIAL_SHARES)
         IN  IF cash > 1000000 \/ shares > 1000
             THEN [cash |-> DEFAULT_INITIAL_CASH, shares |-> DEFAULT_INITIAL_SHARES]
             ELSE [cash |-> cash, shares |-> shares]

\* live_trader.save_final_portfolio
save_final_portfolio(portfolio_value, shares, current_price, cash) ==
    PortfolioJson(portfolio_value, cash, shares, current_price, "")

\* What the buffer and main() read of a state: the shapes of the two
\* arrays the buffer validates, and the three portfolio scalars.
StateView(state) ==
    [stock_history    |-> Shape2(state.stock_history),
     news_articles    |-> state.news_articles.shape,
     portfolio_cash   |-> state.portfolio_cash,
     portfolio_shares |-> state.portfolio_shares,
     current_price    |-> state.current_price]

Raw(x) == [num |-> x, den |-> 1]

\* the reward execute_action returned, as the float it is
RewardOf(res) ==
    IF res.kind = "finite"
    THEN [kind |-> "finite", num |-> res.reward.num, den |-> res.reward.den]
    ELSE [kind |-> res.kind]

ZeroReward == [kind |-> "finite", num |-> 0, den |-> 1]

\* epsilon decaying over the capacity instead of over 100 transitions
live_epsilon_over_capacity(buffer_size) == Max(20, 100 - 2 * buffer_size)

\* line 84: epsilon = max(0.2, 1.0 - size / 100.0), in hundredths
live_epsilon(buffer_size) == Max(20, 100 - buffer_size)

clip_nothing(action) == action

\* np.clip(action, -1.0, 1.0)
clip(action) == Max(-Scale, Min(Scale, action))

live_policy_always_blend(base_action, buffer_size, draw, noise) ==
    Max(-Scale, Min(Scale, (60 * base_action + 40 * noise) \div 100))

\* lines 86-95: draw is random.random() and noise random.uniform(-1, 1), in
\* hundredths; exploration_weight = 0.4
live_policy(base_action, buffer_size, draw, noise) ==
    clip(IF draw < live_epsilon(buffer_size)
         THEN (60 * base_action + 40 * noise) \div 100
         ELSE base_action)

\* simulator.py line 57: epsilon = max(0.1, 1.0 - day_idx / 100.0), in
\* hundredths
sim_epsilon(day_idx) == Max(10, 100 - day_idx)

\* simulator.py lines 58-64: the blend (exploration_weight = 0.3) has no
\* else branch, the model's action is kept otherwise; then np.clip
sim_policy(base_action, day_idx, draw, noise) ==
    clip(IF draw < sim_epsilon(day_idx)
         THEN (70 * base_action + 30 * noise) \div 100
         ELSE base_action)

\* lines 99-102: next_state = current_state.copy() with the raw post-trade
\* cash and shares and the close price written over the normalized scalars
next_state_of(current_state, trade, close_price) ==
    [current_state EXCEPT !.portfolio_cash = Raw(trade.cash),
                          !.portfolio_shares = Raw(trade.shares),
                          !.current_price = Raw(close_price)]

final_position_initial(buffer, initial) ==
    [cash |-> initial.cash, shares |-> initial.shares]

\* main.py lines 53-59: the cash and shares main() saves
final_position(buffer, initial) ==
    IF Len(buffer) > 0
    THEN [cash   |-> buffer[Len(buffer)].next_state.portfolio_cash.num,
          shares |-> buffer[Len(buffer)].next_state.portfolio_shares.num]
    ELSE [cash |-> initial.cash, shares |-> initial.shares]

\* The inputs of one run that do not come from the three files: the number
\* of history rows, today's open and close, the model's action, the two
\* random draws, which of the external calls fail, and how far the clock
\* has moved on when the buffer is saved and when the session is recorded.
HistoryLengths == {49, 50}

PricePairs == {<<10, 10>>, <<10, 12>>}

BaseActions == {60}

RandomDraws == {0, 99}

NoiseDraws == {-100}

\* the state of lines 66-70: prepare_rl_data always hands over
\* MAX_DAYS_HISTORY rows and a mask and news tensor of its own making
current_state_of(history_rows, position, open_price) ==
    StateView(create_state_representation(
        MAX_DAYS_HISTORY, 4, prepare_daily_news(<<>>),
        MaskOf(MAX_DAYS_HISTORY, Min(history_rows, MAX_DAYS_HISTORY)),
        position.cash, position.shares, open_price))

\* make_live_trading_decision from the loading of the buffer up to and
\* including add_experience (lines 49-106), after load_initial_portfolio
\* (main.py line 43).  When execute_action raises the values of the later
\* lines are not looked at.
Decision(history_rows, prices, base_action, draw, noise, zdiv) ==
    LET position == load_initial_portfolio(portfolioFile)
        buffer0  == load(<<>>, BUFFER_SIZE, bufferFile)
        state    == current_state_of(history_rows, position, prices[1])
        action   == live_policy(base_action, Len(buffer0), draw, noise)
        trade    == execute_action(position.cash, position.shares, action,
                                   prices[1], prices[2], zdiv)
        exp      == Experience(state, action, RewardOf(trade),
                               next_state_of(state, trade, prices[2]), FALSE)
        buffer   == add_experience(buffer0, BUFFER_SIZE, exp)
    IN  IF trade.outcome = "raised"
        THEN [outcome |-> "raised"]
        ELSE [outcome |-> "returned", position |-> position,
              size0 |-> Len(buffer0), action |-> action, trade |-> trade,
              reward |-> RewardOf(trade), buffer |-> buffer,
              \* whether exp went into the buffer
              gained |-> \/ buffer = Append(buffer0, exp)
                         \/ /\ Len(buffer0) = BUFFER_SIZE
                            /\ buffer = Append(Tail(buffer0), exp)]

\* the outcomes the division of execute_action has on these inputs
ZeroDivChoices(prices) ==
    LET position == load_initial_portfolio(portfolioFile)
    IN  IF get_portfolio_value(position.cash, position.shares, prices[2]) = 0
        THEN ZeroDivOutcomes ELSE {"raise"}

\* main.py line 30
insufficient_data_below_40(history_rows) == history_rows < 40

insufficient_data(history_rows) == history_rows < MIN_HISTORICAL_DATA_POINTS

\* main.py lines 17 and 73-77: whatever the body of main() raises is caught
\* by `except Exception`, printed, and main() returns
main(body) == "returned"

\* trading_runner.py lines 95-115: what the runner logs and exits with
trading_runner(main_result) ==
    IF main_result = "raised"
    THEN [log |-> "Trading execution failed", exit |-> 1]
    ELSE [log |-> "Trading execution completed successfully", exit |-> 0]

\* a run of main() under the runner: how the body ended, on which day it
\* began, the steps it went through, and what the runner reported
Ran(outcome, day, steps, history_rows) ==
    [outcome |-> outcome, day |-> day, steps |-> steps,
     history_rows |-> history_rows,
     runner |-> trading_runner(main(IF outcome = "failed" THEN "raised"
                                    ELSE "returned"))]

\* main.py line 30: too little history, nothing is read or written
CycleInsufficientData ==
    \E history_rows \in HistoryLengths :
        /\ insufficient_data(history_rows)
        /\ last' = Ran("failed", clock, <<"insufficient_data">>, history_rows)
        /\ UNCHANGED <<clock, bufferFile, sessionFile, portfolioFile, appended,
                       firstSize>>

\* live_trader.py lines 26-47, then main.py lines 50-64
CycleSkipped ==
    \E history_rows \in HistoryLengths, prices \in PricePairs :
        LET position == load_initial_portfolio(portfolioFile)
            buffer   == <<>>          \* ExperienceReplayBuffer(), never loaded
            value    == position.cash + position.shares * prices[2]
            final    == final_position(buffer, position)
        IN  /\ ~insufficient_data(history_rows)
            /\ has_traded_today(sessionFile, clock)
            \* line 42 writes the status, main.py line 64 writes over it
            /\ portfolioFile' = save_final_portfolio(value, final.shares,
                                                     prices[2], final.cash)
            /\ last' = Ran("skipped", clock,
                           <<"has_traded", "write_portfolio", "model_save",
                             "save_final_portfolio">>, history_rows) @@
                       [value |-> value, reward |-> ZeroReward,
                        handle_size |-> Len(buffer),
                        wrote |-> PortfolioJson(value, position.cash,
                                      position.shares, prices[2], NoTradeStatus)]
            /\ UNCHANGED <<clock, bufferFile, sessionFile, appended, firstSize>>

\* model.predict raises (line 81): nothing has been written yet
CycleModelFails ==
    \E history_rows \in HistoryLengths :
        /\ ~insufficient_data(history_rows)
        /\ ~has_traded_today(sessionFile, clock)
        /\ last' = Ran("failed", clock,
                       <<"has_traded", "load_buffer", "predict_failed">>,
                       history_rows)
        /\ UNCHANGED <<clock, bufferFile, sessionFile, portfolioFile, appended,
                       firstSize>>

\* execute_action raises ZeroDivisionError (line 97)
CycleEnvRaises ==
    \E history_rows \in HistoryLengths, prices \in PricePairs,
       base_action \in BaseActions, draw \in RandomDraws, noise \in NoiseDraws :
        /\ ~insufficient_data(history_rows)
        /\ ~has_traded_today(sessionFile, clock)
        /\ Decision(history_rows, prices, base_action, draw, noise, "raise").outcome = "raised"
        /\ last' = Ran("failed", clock,
                       <<"has_traded", "load_buffer", "predict",
                         "execute_action_raised">>, history_rows)
        /\ UNCHANGED <<clock, bufferFile, sessionFile, portfolioFile,
                       appended, firstSize>>

\* train_rl_model raises (line 110): the transition was added to the buffer
\* in memory, the buffer was not saved
CycleTrainFails ==
    \E history_rows \in HistoryLengths, prices \in PricePairs,
       base_action \in BaseActions, draw \in RandomDraws, noise \in NoiseDraws :
      \E zdiv \in ZeroDivChoices(prices) :
        /\ ~insufficient_data(history_rows)
        /\ ~has_traded_today(sessionFile, clock)
        /\ \E d \in {Decision(history_rows, prices, base_action, draw, noise, zdiv)} :
              /\ d.outcome = "returned"
              /\ Len(d.buffer) >= MinTrainSize
              /\ last' = Ran("failed", clock,
                             <<"has_traded", "load_buffer", "predict",
                               "execute_action", "add_experience",
                               "train_failed">>, history_rows)
              /\ UNCHANGED <<clock, bufferFile, sessionFile, portfolioFile,
                             appended, firstSize>>

\* the steps of a run that gets as far as saving the buffer and recording
\* the session
StepsToRecord(trained) ==
    <<"has_traded", "load_buffer", "predict", "execute_action",
      "add_experience">>
    \o (IF trained THEN <<"train">> ELSE <<>>)
    \o <<"save_buffer", "record_session">>

\* what a run that returned from make_live_trading_decision saw and did
RunDetails(d, prices, base_action, draw, noise, record_day) ==
    [value |-> d.trade.value, reward |-> d.reward,
     handle_size |-> Len(d.buffer),
     position |-> d.position, size0 |-> d.size0,
     prices |-> prices, base_action |-> base_action,
     explored |-> draw < live_epsilon(d.size0),
     action |-> d.action,
     noise |-> noise, trade |-> d.trade,
     gained |-> d.gained, recorded |-> record_day]

\* the whole of make_live_trading_decision (lines 49-134): the buffer is
\* saved and the session recorded; then model.save raises (main.py line
\* 50) and the portfolio is not saved
CycleModelSaveFails ==
    \E history_rows \in HistoryLengths, prices \in PricePairs,
       base_action \in BaseActions, draw \in RandomDraws, noise \in NoiseDraws :
      \E zdiv \in ZeroDivChoices(prices) :
        /\ ~insufficient_data(history_rows)
        /\ ~has_traded_today(sessionFile, clock)
        /\ \E d \in {Decision(history_rows, prices, base_action, draw, noise, zdiv)} :
              /\ d.outcome = "returned"
              /\ bufferFile' = save(d.buffer)
              /\ sessionFile' = record_trading_session(sessionFile, clock,
                                    d.action, d.reward, d.trade.value)
              /\ appended' = [appended EXCEPT ![clock] =
                                 @ + (IF d.gained THEN 1 ELSE 0)]
              /\ firstSize' = [firstSize EXCEPT ![clock] = Len(d.buffer)]
              /\ last' = Ran("failed", clock,
                             StepsToRecord(Len(d.buffer) >= MinTrainSize)
                             \o <<"model_save_failed">>, history_rows)
              /\ UNCHANGED <<clock, portfolioFile>>

\* the whole of make_live_trading_decision (lines 49-134), then main.py
\* lines 50-64; the clock may pass midnight before the buffer is saved
\* (save_day) and again before the session is recorded (record_day)
CycleCompleted ==
    \E history_rows \in HistoryLengths, prices \in PricePairs,
       base_action \in BaseActions, draw \in RandomDraws, noise \in NoiseDraws :
      \E zdiv \in ZeroDivChoices(prices) :
        /\ ~insufficient_data(history_rows)
        /\ ~has_traded_today(sessionFile, clock)
        /\ \E d \in {Decision(history_rows, prices, base_action, draw, noise, zdiv)} :
           /\ d.outcome = "returned"
           /\ \E final \in {final_position(d.buffer, d.position)},
                 save_day \in clock..Min(clock + 1, LastDay) :
              \E record_day \in save_day..Min(save_day + 1, LastDay) :
                 /\ bufferFile' = save(d.buffer)
                 /\ sessionFile' = record_trading_session(sessionFile, record_day,
                                       d.action, d.reward, d.trade.value)
                 /\ portfolioFile' = save_final_portfolio(d.trade.value, final.shares,
                                                          prices[2], final.cash)
                 /\ clock' = record_day
                 /\ appended' = [appended EXCEPT ![save_day] =
                                    @ + (IF d.gained THEN 1 ELSE 0)]
                 /\ firstSize' = [firstSize EXCEPT ![record_day] = Len(d.buffer)]
                 /\ last' = Ran("completed", clock,
                                StepsToRecord(Len(d.buffer) >= MinTrainSize)
                                \o <<"model_save", "save_final_portfolio">>,
                                history_rows) @@
                            RunDetails(d, prices, base_action, draw, noise,
                                       record_day)

\* midnight passes between two runs
Midnight ==
    /\ clock < LastDay
    /\ clock' = clock + 1
    /\ UNCHANGED <<bufferFile, sessionFile, portfolioFile, last, appended,
                   firstSize>>

\* The files a first run may find: no buffer or one an earlier run saved
\* (of 9, 12 or 49 transitions), no portfolio file or a saved one, and no
\* session for any of the days to come.
OldExperience ==
    LET position == [cash |-> DEFAULT_INITIAL_CASH, shares |-> DEFAULT_INITIAL_SHARES]
        state == current_state_of(80, position, 10)
        trade == execute_action(position.cash, position.shares, 0, 10, 10, "raise")
    IN  Experience(state, 0, RewardOf(trade), next_state_of(state, trade, 10), FALSE)

SavedBuffer(size) == ListFile([i \in 1..size |-> OldExperience])

InitialBufferFiles ==
    {AbsentFile, SavedBuffer(9), SavedBuffer(12), SavedBuffer(BUFFER_SIZE - 1)}

InitialPortfolioFiles ==
    {NoPortfolioFile, PortfolioJson(50, 0, 5, 10, ""),
     PortfolioJson(0, 0, 0, 10, ""), PortfolioJson(2000050, 2000000, 5, 10, ""),
     PortfolioJson(20000, 20000, 0, 10, "")}

CycIdle ==
    /\ clock = 1 /\ bufferFile = AbsentFile /\ sessionFile = NoSessionFile
    /\ portfolioFile = NoPortfolioFile /\ last = [outcome |-> "none"]
    /\ appended = <<>> /\ firstSize = <<>>

CycStart ==
    /\ clock = 1
    /\ bufferFile \in InitialBufferFiles
    /\ sessionFile = NoSessionFile
    /\ portfolioFile \in InitialPortfolioFiles
    /\ last = [outcome |-> "none"]
    /\ appended = [day \in 1..LastDay |-> 0]
    /\ firstSize = [day \in 1..LastDay |-> -1]

---------------------------------------------------------------------------
(* The loaders of the three files, each called once on a file that is      *)
(* absent, unreadable (not a pickle, not JSON) or well formed.  A call     *)
(* either returns a value or raises.                                       *)

UnreadableFile == [kind |-> "corrupt"]

Returned(value) == [raised |-> FALSE, value |-> value]

Raised(error) == [raised |-> TRUE, error |-> error]

\* ExperienceReplayBuffer().load(file): FileNotFoundError (line 77) and
\* every other Exception (line 79) are caught inside load
Call_load(capacity, file) == Returned(load(<<>>, capacity, file))

\* load_initial_portfolio(): json.load raises JSONDecodeError on a file
\* that is not JSON; only FileNotFoundError is caught (line 166)
Call_load_initial_portfolio(file) ==
    IF file.kind = "corrupt" THEN Raised("JSONDecodeError")
    ELSE Returned(load_initial_portfolio(file))

\* has_traded_today(): likewise (trading_tracker.py line 18)
Call_has_traded_today(file, day) ==
    IF file.kind = "corrupt" THEN Raised("JSONDecodeError")
    ELSE Returned(has_traded_today(file, day))

PortfolioCash == {-5, 0, 1500, 999999, 1000000, 1000001, 2000000}

PortfolioShares == {0, 5, 1000, 1001, 5000}

\* JSON objects with both members, with one of them, with neither
PortfolioObjects ==
    {[kind |-> "json", cash |-> c, shares |-> s] :
        c \in PortfolioCash, s \in PortfolioShares}
    \cup {[kind |-> "json", cash |-> c] : c \in PortfolioCash}
    \cup {[kind |-> "json", shares |-> s] : s \in PortfolioShares}
    \cup {[kind |-> "json"]}

LoaderCalls ==
    {[fn |-> "load_initial_portfolio", file |-> f] :
        f \in PortfolioObjects \cup {NoPortfolioFile, UnreadableFile}}
    \cup {[fn |-> "load", file |-> f, capacity |-> c] :
            f \in {AbsentFile, CorruptFile, OldFile}, c \in 1..MaxCapacity}
    \cup {[fn |-> "has_traded_today", file |-> f, day |-> d] :
            f \in {NoSessionFile, UnreadableFile, SessionFile(<<>>),
                   record_trading_session(NoSessionFile, 1, 60, 0, 1500)},
            d \in 1..MaxDay}

NotCalled == [made |-> FALSE]

FnIdle == callIn = [fn |-> "none"] /\ callOut = NotCalled

LdStart == callIn \in LoaderCalls /\ callOut = NotCalled

LdBuffer ==
    /\ callIn.fn = "load" /\ ~callOut.made
    /\ callOut' = [made |-> TRUE, res |-> Call_load(callIn.capacity, callIn.file)]
    /\ UNCHANGED callIn

LdPortfolio ==
    /\ callIn.fn = "load_initial_portfolio" /\ ~callOut.made
    /\ callOut' = [made |-> TRUE, res |-> Call_load_initial_portfolio(callIn.file)]
    /\ UNCHANGED callIn

LdSession ==
    /\ callIn.fn = "has_traded_today" /\ ~callOut.made
    /\ callOut' = [made |-> TRUE,
                   res |-> Call_has_traded_today(callIn.file, callIn.day)]
    /\ UNCHANGED callIn

---------------------------------------------------------------------------
(* Specifications                                                          *)

EnvInit == EnvStart /\ BufIdle /\ TrkIdle /\ SbIdle /\ CycIdle /\ FnIdle

EnvNext == EnvExecuteAction /\ UNCHANGED <<bufVars, trkVars, sbVars, cycVars, fnVars>>

SpecEnv == EnvInit /\ [][EnvNext]_vars

BufInit == BufStart /\ EnvIdle /\ TrkIdle /\ SbIdle /\ CycIdle /\ FnIdle

BufNext ==
    \/ BufAdd /\ UNCHANGED <<envVars, trkVars, sbVars, cycVars, fnVars>>
    \/ BufSample /\ UNCHANGED <<envVars, trkVars, sbVars, cycVars, fnVars>>
    \/ BufSave /\ UNCHANGED <<envVars, trkVars, sbVars, cycVars, fnVars>>
    \/ BufLoad /\ UNCHANGED <<envVars, trkVars, sbVars, cycVars, fnVars>>
    \/ BufClear /\ UNCHANGED <<envVars, trkVars, sbVars, cycVars, fnVars>>

SpecBuffer == BufInit /\ [][BufNext]_vars

TrkInit == TrkStart /\ EnvIdle /\ BufIdle /\ SbIdle /\ CycIdle /\ FnIdle

TrkNext ==
    \/ TrkTick /\ UNCHANGED <<envVars, bufVars, sbVars, cycVars, fnVars>>
    \/ TrkHasTraded /\ UNCHANGED <<envVars, bufVars, sbVars, cycVars, fnVars>>
    \/ TrkRecord /\ UNCHANGED <<envVars, bufVars, sbVars, cycVars, fnVars>>
    \/ TrkClear /\ UNCHANGED <<envVars, bufVars, sbVars, cycVars, fnVars>>

SpecTracker == TrkInit /\ [][TrkNext]_vars

SbInit == SbStart /\ EnvIdle /\ BufIdle /\ TrkIdle /\ CycIdle /\ FnIdle

SbNext == SbBuild /\ UNCHANGED <<envVars, bufVars, trkVars, cycVars, fnVars>>

SpecState == SbInit /\ [][SbNext]_vars

LdInit == LdStart /\ EnvIdle /\ BufIdle /\ TrkIdle /\ SbIdle /\ CycIdle

LdNext ==
    \/ LdBuffer /\ UNCHANGED <<envVars, bufVars, trkVars, sbVars, cycVars>>
    \/ LdPortfolio /\ UNCHANGED <<envVars, bufVars, trkVars, sbVars, cycVars>>
    \/ LdSession /\ UNCHANGED <<envVars, bufVars, trkVars, sbVars, cycVars>>

SpecLoad == LdInit /\ [][LdNext]_vars

\* The decision cycle: runs of main(), one after the other, any number a day.
Init == CycStart /\ EnvIdle /\ BufIdle /\ TrkIdle /\ SbIdle /\ FnIdle

Others == <<envVars, bufVars, trkVars, sbVars, fnVars>>

Next ==
    \/ CycleInsufficientData /\ UNCHANGED Others
    \/ CycleSkipped /\ UNCHANGED Others
    \/ CycleModelFails /\ UNCHANGED Others
    \/ CycleEnvRaises /\ UNCHANGED Others
    \/ CycleTrainFails /\ UNCHANGED Others
    \/ CycleModelSaveFails /\ UNCHANGED Others
    \/ CycleCompleted /\ UNCHANGED Others
    \/ Midnight /\ UNCHANGED Others

Spec == Init /\ [][Next]_vars

---------------------------------------------------------------------------
(* Claims about execute_action (checked under SpecEnv)                     *)

HoldCall == envCall.made /\ envCall.action >= -10 /\ envCall.action <= 10

BuyCall == envCall.made /\ envCall.action > 10

SellCall == envCall.made /\ envCall.action < -10

\* C4 (as claimed): for every action in [-0.1, 0.1] and any cash, shares,
\* open and close price, execute_action leaves cash and shares unchanged and
\* returns a reward of exactly the hold penalty -0.1, with no risk bonus.
C4_HoldReturnsExactPenalty ==
    HoldCall =>
        /\ envCash = envCall.cash
        /\ envShares = envCall.shares
        /\ envRes.outcome = "returned"
        /\ envRes.kind = "finite"
        /\ RatEq(envRes.reward, HoldPenalty)
        /\ envRes.bonus = 0

\* C5: for every action a > 0.1 (a <= 1) and cash >= 0, execute_action buys
\* floor(a * floor(cash / open_price)) shares, at most floor(cash /
\* open_price), paying open_price for each; the resulting cash is >= 0, and
\* with open_price = 0 nothing is bought.
C5_BuyWithinAffordable ==
    BuyCall =>
        LET bought   == envShares - envCall.shares
            floorAff == IF envCall.open > 0
                        THEN envCall.cash \div envCall.open ELSE 0
        IN  /\ bought = (envCall.action * floorAff) \div 100
            /\ bought <= floorAff
            /\ envCash = envCall.cash - bought * envCall.open
            /\ envCash >= 0
            /\ (envCall.open = 0 => bought = 0)

C5_Witness == BuyCall /\ envShares > envCall.shares /\ envCash > 0

\* C6: for every action a < -0.1 (a >= -1) and shares >= 0, execute_action
\* sells floor(|a| * shares) shares, at most the pre-trade share count, and
\* the resulting share count is >= 0.
C6_SellWithinHoldings ==
    SellCall =>
        LET sold == envCall.shares - envShares
        IN  /\ sold = (Abs(envCall.action) * envCall.shares) \div 100
            /\ sold <= envCall.shares
            /\ sold >= 0
            /\ envShares >= 0
            /\ envCash = envCall.cash + sold * envCall.open

C6_Witness == SellCall /\ envShares < envCall.shares /\ envShares > 0

---------------------------------------------------------------------------
(* Claims about the replay buffer (checked under SpecBuffer)               *)

IsInjective(ix) == \A i, j \in DOMAIN ix : i # j => ix[i] # ix[j]

\* C3: after any sequence of add_experience, load and clear the buffer holds
\* at most capacity transitions; adding a valid transition to a full buffer
\* removes exactly the oldest, appends the new one as newest and keeps the
\* order of the rest.
C3_CapacityAndFifo ==
    /\ Len(bufBuffer) <= bufCapacity
    /\ (bufOp.op = "add" /\ bufOp.exp \in ValidPool
                         /\ Len(bufOp.pre) = bufCapacity) =>
           /\ Len(bufBuffer) = bufCapacity
           /\ bufBuffer[bufCapacity] = bufOp.exp
           /\ \A i \in 1..(bufCapacity - 1) : bufBuffer[i] = bufOp.pre[i + 1]

C3_Witness ==
    /\ bufOp.op = "add" /\ bufOp.exp \in ValidPool
    /\ Len(bufOp.pre) = bufCapacity /\ bufCapacity >= 3
    /\ bufOp.pre[1] # bufOp.pre[2] /\ bufOp.pre[2] # bufOp.pre[3]

\* C7: sample_batch(k) on a buffer of n entries returns all n entries when
\* n < k and k entries taken at pairwise distinct positions of the buffer
\* when n >= k, and leaves the buffer as it was.
C7_SampleBatchSizeAndDistinct ==
    bufOp.op = "sample" =>
        LET n == Len(bufOp.pre)
            k == bufOp.batch_size
        IN  /\ bufBuffer = bufOp.pre
            /\ n < k => bufOp.batch = bufOp.pre
            /\ n >= k =>
                 /\ Len(bufOp.batch) = k
                 /\ \E ix \in [1..k -> 1..n] :
                       /\ IsInjective(ix)
                       /\ \A i \in 1..k : bufOp.batch[i] = bufOp.pre[ix[i]]

C7_Witness ==
    /\ bufOp.op = "sample" /\ bufOp.batch_size = 2 /\ Len(bufOp.pre) = 3
    /\ bufOp.pre[1] # bufOp.pre[3]
    /\ bufOp.batch = <<bufOp.pre[3], bufOp.pre[1]>>

\* C8: save followed by load into a buffer of the same capacity gives back
\* the saved list of transitions: same length, same order, same values.
C8_SaveLoadRoundTrip ==
    (bufOp.op = "load" /\ bufSaved.valid) => bufBuffer = bufSaved.data

C8_Witness ==
    /\ bufOp.op = "load" /\ bufSaved.valid
    /\ Len(bufSaved.data) >= 2 /\ bufSaved.data[1] # bufSaved.data[2]
    /\ bufOp.pre # bufSaved.data

---------------------------------------------------------------------------
(* Claims about the session tracker (checked under SpecTracker)            *)

MembersOf(file) == IF file.kind = "absent" THEN <<>> ELSE file.members

OtherMembers(file, key) ==
    SelectSeq(MembersOf(file), LAMBDA m : m.key # key)

\* C9: has_traded is false for a date before any record for it and true
\* right after one; a second record for the date replaces its entry (one
\* entry keyed by the date, holding the latest action, reward and value) and
\* leaves the entries of every other date as they were.
C9_RecordThenHasTraded ==
    /\ \A day \in 1..MaxDay :
           has_traded_today(trkFile, day) <=> day \in trkRecorded
    /\ trkOp.op = "record" =>
           LET key == get_today_session_id(trkOp.day)
               now == MembersOf(trkFile)
           IN  /\ has_traded_today(trkFile, trkOp.day)
               /\ Cardinality({i \in DOMAIN now : now[i].key = key}) = 1
               /\ \A i \in DOMAIN now :
                      now[i].key = key =>
                          now[i].value =
                              [date |-> key, action |-> trkOp.action,
                               reward |-> trkOp.reward,
                               portfolio_value |-> trkOp.portfolio_value]
               /\ OtherMembers(trkFile, key) = OtherMembers(trkOp.pre, key)

\* a second record for a date, with other values, while another date has
\* its entry
C9_Witness ==
    /\ trkOp.op = "record"
    /\ has_traded_today(trkOp.pre, trkOp.day)
    /\ \E i \in DOMAIN MembersOf(trkOp.pre) :
           /\ trkOp.pre.members[i].key = get_today_session_id(trkOp.day)
           /\ trkOp.pre.members[i].value.action # trkOp.action
    /\ Len(MembersOf(trkFile)) >= 2

---------------------------------------------------------------------------
(* Claims about the state builder (checked under SpecState)                *)

\* C10: for every window length create_state_representation returns a
\* stock_history of exactly H = 180 rows of 12 features and news_articles of
\* shape (H, 5, 3); a shorter window is left-padded with zero rows and zero
\* mask entries, a longer one is cut to its most recent H rows, and
\* stock_mask is as long as stock_history.
C10_FixedShapes ==
    sbOut.made =>
        LET st   == sbOut.state
            n    == sbIn.df_rows
            rows == st.stock_history.rows
            pad  == IF n < 180 THEN 180 - n ELSE 0
            cut  == IF n > 180 THEN n - 180 ELSE 0
        IN  /\ Shape2(st.stock_history) = <<180, 12>>
            /\ st.news_articles.shape = <<180, 5, 3>>
            /\ Len(st.stock_mask) = 180
            /\ \A i \in 1..pad : rows[i] = ZeroRow /\ st.stock_mask[i] = 0
            /\ \A i \in (pad + 1)..180 : rows[i].src = i - pad + cut

\* a window of 50 rows: 130 zero rows, then the 50 in order
C10_WitnessShort ==
    /\ sbOut.made /\ sbIn.df_rows = 50
    /\ sbOut.state.stock_history.rows[130] = ZeroRow
    /\ sbOut.state.stock_history.rows[131].src = 1

\* a window of 182 rows: the two oldest are cut
C10_WitnessLong ==
    /\ sbOut.made /\ sbIn.df_rows = 182
    /\ sbOut.state.stock_history.rows[1].src = 3

---------------------------------------------------------------------------
(* Claims about the decision cycle (checked under Spec)                    *)

SavedSize == IF bufferFile.kind = "list" THEN Len(bufferFile.data) ELSE 0

SessionsKeyed(day) ==
    {i \in DOMAIN MembersOf(sessionFile) :
        sessionFile.members[i].key = get_today_session_id(day)}

\* a run that found a session recorded for its date by an earlier run
SecondCall == last.outcome = "skipped" /\ firstSize[last.day] >= 0

\* What does hold of a second call: no state is built, the model is not
\* queried, nothing is executed or trained, the reward is 0.0, the status
\* written is the no-trade one and the saved buffer keeps its size.
SecondCallSkipsAndKeepsFile ==
    SecondCall =>
        /\ last.steps = <<"has_traded", "write_portfolio", "model_save",
                          "save_final_portfolio">>
        /\ last.reward = ZeroReward
        /\ last.wrote.status = NoTradeStatus
        /\ SavedSize = firstSize[last.day]

\* C1 (as claimed): a second call on a date that has its session recorded
\* skips state building, model query, trade and training, returns reward
\* 0.0 with the no-trade status, and the buffer size seen after it, in the
\* saved buffer and in the handle it returns, is the size after the first
\* call.
C1_SecondCallSameBufferSize ==
    SecondCall =>
        /\ SecondCallSkipsAndKeepsFile
        /\ last.handle_size = firstSize[last.day]

\* C2: over any sequence of runs, one after the other, the saved buffer
\* gains at most one transition on any calendar date and the session map
\* holds at most one record for any date.
C2_OneTransitionPerDate ==
    \A day \in 1..LastDay :
        /\ appended[day] <= 1
        /\ Cardinality(SessionsKeyed(day)) <= 1

\* a second run on a date that gained its transition, with two dates on
\* record
C2_Witness ==
    /\ last.outcome = "skipped"
    /\ appended[last.day] = 1
    /\ Len(MembersOf(sessionFile)) >= 2

---------------------------------------------------------------------------
(* Further claims about the replay buffer (checked under SpecBuffer)       *)

\* the shape contract, as the claim words it
ShapeContract(state) ==
    /\ "stock_history" \in DOMAIN state
    /\ "news_articles" \in DOMAIN state
    /\ state.stock_history = <<180, 12>>
    /\ state.news_articles = <<180, 5, 3>>

Compatible(exp) == ShapeContract(exp.state) /\ ShapeContract(exp.next_state)

\* C11: after any sequence of add_experience, load and clear every
\* transition in the buffer has a state and a next_state of the contract's
\* shapes; an add_experience with a state or next_state that violates the
\* contract leaves the buffer as it was; load keeps only the compatible
\* transitions of the file, in their stored order.
C11_OnlyCompatibleStored ==
    /\ \A i \in DOMAIN bufBuffer : Compatible(bufBuffer[i])
    /\ (bufOp.op = "add" /\ ~Compatible(bufOp.exp)) => bufBuffer = bufOp.pre
    /\ (bufOp.op = "load" /\ bufFile.kind = "list") =>
           bufBuffer = LastN(SelectSeq(bufFile.data, Compatible), bufCapacity)

\* an incompatible transition offered to a buffer that holds some
C11_Witness ==
    /\ bufOp.op = "add" /\ ~Compatible(bufOp.exp)
    /\ Len(bufOp.pre) >= 1 /\ bufBuffer = bufOp.pre

\* a load of a file with an incompatible entry in it
C11_WitnessLoad ==
    /\ bufOp.op = "load" /\ bufFile.kind = "list"
    /\ \E i \in DOMAIN bufFile.data : ~Compatible(bufFile.data[i])
    /\ Len(bufBuffer) >= 2

---------------------------------------------------------------------------
(* Claims about a completed run of the decision cycle (checked under Spec) *)

\* the scenario: cash 1500, no shares, a buffer of 12 loaded, the model
\* returns 0.6
Scenario ==
    /\ last.outcome = "completed"
    /\ last.position = [cash |-> 1500, shares |-> 0]
    /\ last.size0 = 12
    /\ last.base_action = 60

\* the action is 0.6, floor(0.6 * floor(1500 / open)) shares are bought and
\* the reward is the close-price movement, in percent, plus exactly 0.3
ScenarioTradesAtModelAction ==
    LET open     == last.prices[1]
        close    == last.prices[2]
        bought   == (60 * (1500 \div open)) \div 100
        valueEnd == (1500 - bought * open) + bought * close
        \* (valueEnd - 1500) / 1500 * 100 + 3/10, over the denominator 30
        expected == [num |-> 2 * (valueEnd - 1500) + 9, den |-> 30]
    IN  /\ last.action = 60
        /\ last.trade.bought = bought
        /\ last.trade.shares = bought
        /\ last.reward.kind = "finite"
        /\ last.trade.bonus = 60          \* 0.3, in units of 1/200
        /\ RatEq(last.reward, expected)

\* C12 (as claimed): in the scenario the action executed is 0.6, the engine
\* buys floor(0.6 * floor(1500 / open_price)) shares and the reward is the
\* base reward plus a risk bonus of exactly 0.3.
C12_ScenarioActionIsModelAction == Scenario => ScenarioTradesAtModelAction

\* C12 (amended): that holds of the runs of the scenario in which the
\* policy does not explore (random.random() >= epsilon = 0.88); in a run
\* that explores the action executed is 0.6 * 0.6 + 0.4 * noise clipped to
\* [-1, 1], not 0.6.
C12_ScenarioWithoutExploration ==
    Scenario =>
        /\ ~last.explored => ScenarioTradesAtModelAction
        /\ last.explored =>
               last.action = clip((60 * 60 + 40 * last.noise) \div 100)

C12_Witness ==
    /\ Scenario /\ ~last.explored
    /\ last.trade.bought = 90 /\ last.prices = <<10, 12>>
    /\ last.handle_size = 13


SessionOf(day) ==
    {m \in {sessionFile.members[i] : i \in DOMAIN MembersOf(sessionFile)} :
        m.key = get_today_session_id(day)}

\* C13: every completed run appends exactly one transition to the buffer
\* (one more than was loaded, or as many with the oldest gone when the
\* buffer was full), saves the buffer, and records for the date of the
\* recording a session with the action and reward of that transition.
C13_CompletedRunAppendsAndRecords ==
    last.outcome = "completed" =>
        /\ last.gained
        /\ last.handle_size = Min(last.size0 + 1, BUFFER_SIZE)
        /\ bufferFile.kind = "list"
        /\ Len(bufferFile.data) = last.handle_size
        /\ LET appendedExp == bufferFile.data[Len(bufferFile.data)]
           IN  /\ appendedExp.action = last.action
               /\ appendedExp.reward = last.reward
               /\ Cardinality(SessionOf(last.recorded)) = 1
               /\ \A m \in SessionOf(last.recorded) :
                      /\ m.value.date = get_today_session_id(last.recorded)
                      /\ m.value.action = appendedExp.action
                      /\ m.value.reward = appendedExp.reward

\* a completed run that loaded a full buffer
C13_Witness ==
    /\ last.outcome = "completed" /\ last.size0 = BUFFER_SIZE
    /\ last.handle_size = BUFFER_SIZE /\ last.gained

---------------------------------------------------------------------------
(* Claims about the loaders (checked under SpecLoad)                       *)

PortfolioLoaded ==
    /\ callOut.made /\ callIn.fn = "load_initial_portfolio"
    /\ callIn.file.kind = "json"

\* C14: load_initial_portfolio returns the defaults (1500, 0) for both
\* fields whenever the file's cash is over 1,000,000 or its shares over
\* 1,000 and the file's cash and shares otherwise, without raising; every
\* pair it returns has cash <= 1,000,000 and shares <= 1,000.  (A member
\* the file lacks counts as its default.)
C14_OutOfRangeResetToDefaults ==
    PortfolioLoaded =>
        LET file   == callIn.file
            cash   == IF "cash" \in DOMAIN file THEN file.cash ELSE 1500
            shares == IF "shares" \in DOMAIN file THEN file.shares ELSE 0
            res    == callOut.res
        IN  /\ ~res.raised
            /\ (cash > 1000000 \/ shares > 1000) =>
                   res.value = [cash |-> 1500, shares |-> 0]
            /\ (cash <= 1000000 /\ shares <= 1000) =>
                   res.value = [cash |-> cash, shares |-> shares]
            /\ res.value.cash <= 1000000
            /\ res.value.shares <= 1000

\* cash in range, shares out of range: both fields are reset
C14_Witness ==
    /\ PortfolioLoaded
    /\ callIn.file = [kind |-> "json", cash |-> 999999, shares |-> 1001]
    /\ callOut.res.value = [cash |-> 1500, shares |-> 0]

---------------------------------------------------------------------------
(* Claims about failing runs of the decision cycle (checked under Spec)    *)

PersistedFiles == <<bufferFile, sessionFile, portfolioFile>>

\* C15: a run that finds fewer than 50 history rows fails with the
\* insufficient-data error before any decision: the model is not queried,
\* nothing is executed, and the buffer, session and portfolio files are not
\* written.
C15_InsufficientDataAborts ==
    [][(last'.outcome # "none" /\ last'.history_rows < 50) =>
           /\ last'.outcome = "failed"
           /\ last'.steps = <<"insufficient_data">>
           /\ UNCHANGED PersistedFiles]_vars

\* such a run, with all three files in place
C15_Witness ==
    /\ last.outcome = "failed" /\ last.history_rows = 49
    /\ last.steps = <<"insufficient_data">>
    /\ bufferFile.kind = "list" /\ sessionFile.kind = "dict"
    /\ portfolioFile.kind = "json"


\* a run in which model.predict or train_rl_model raised
ModelFailed ==
    /\ last.outcome = "failed"
    /\ last.steps[Len(last.steps)] \in {"predict_failed", "train_failed"}

\* C16 (as claimed): when the model's evaluation or its training update
\* fails, the run still persists the portfolio and a session for that day
\* that says no trade was executed.
C16_ModelFailureStillPersists ==
    ModelFailed =>
        /\ has_traded_today(sessionFile, last.day)
        /\ portfolioFile.kind = "json"


\* a failed run is reported by the runner as a failure
FailureReportedAsFailure ==
    last.outcome = "failed" =>
        /\ last.runner.exit # 0
        /\ last.runner.log # "Trading execution completed successfully"

\* the portfolio file a skipped run leaves says that no trade was made
NoTradeStatusPersisted ==
    last.outcome = "skipped" => portfolioFile.status = NoTradeStatus

\* C17 (as claimed): whenever the cycle raises (insufficient data, model
\* failure, a failing save) the runner takes its failure path, with a
\* non-zero exit and without logging 'Trading execution completed
\* successfully', and the persisted 'no trade' status is kept apart from
\* the other outcomes.
C17_FailureReportedDistinctly ==
    FailureReportedAsFailure /\ NoTradeStatusPersisted


IndexOf(steps, step) == CHOOSE i \in DOMAIN steps : steps[i] = step

Count(steps, step) == Cardinality({i \in DOMAIN steps : steps[i] = step})

\* within a completed run the buffer is saved once, after the training
\* update, and the session and the portfolio are saved after the buffer
CompletedRunSavesInOrder ==
    last.outcome = "completed" =>
        /\ Count(last.steps, "save_buffer") = 1
        /\ Count(last.steps, "train") = 1 =>
               IndexOf(last.steps, "train") < IndexOf(last.steps, "save_buffer")
        /\ IndexOf(last.steps, "save_buffer") < IndexOf(last.steps, "record_session")
        /\ IndexOf(last.steps, "save_buffer")
               < IndexOf(last.steps, "save_final_portfolio")

\* a run that fails before the buffer is saved leaves the three files alone
EarlyFailureLeavesFilesIntact ==
    [][(last'.outcome = "failed" /\ Count(last'.steps, "save_buffer") = 0) =>
           UNCHANGED PersistedFiles]_vars

\* C18 (as claimed): a run that fails at any step leaves the buffer, the
\* session and the portfolio file exactly as they were; a successful run
\* saves the buffer once, after the training update, and the portfolio and
\* the session after the buffer.
C18_FailureLeavesFilesIntact ==
    [][/\ last'.outcome = "failed" => UNCHANGED PersistedFiles
       /\ CompletedRunSavesInOrder']_vars

---------------------------------------------------------------------------
(* Further claims about the loaders (checked under SpecLoad)               *)

\* the value a loader falls back to
FallbackOf(fn) ==
    IF fn = "load" THEN <<>>
    ELSE IF fn = "load_initial_portfolio" THEN [cash |-> 1500, shares |-> 0]
    ELSE FALSE

\* an absent file makes the loader return its fallback without raising
AbsentFileFallsBack ==
    (callOut.made /\ callIn.file.kind = "absent") =>
        /\ ~callOut.res.raised
        /\ callOut.res.value = FallbackOf(callIn.fn)

\* C19 (as claimed): each of the three loaders falls back to an empty or
\* default value without raising when its file is absent, and raises to
\* its caller, substituting nothing, when the file exists but is
\* unreadable.
C19_AbsentFallsBackMalformedRaises ==
    /\ AbsentFileFallsBack
    /\ (callOut.made /\ callIn.file.kind = "corrupt") => callOut.res.raised

---------------------------------------------------------------------------
(* The epsilon-greedy policy of the live trader and of the simulator,      *)
(* called on its own: model output, buffer size or day index, the two      *)
(* random draws.  The model comes from a file, so its output is not taken  *)
(* to be inside the tanh range.                                            *)

ModelOutputs == {-150, -100, -60, 0, 60, 100, 150}

BufferSizes == {0, 50, 80, 100}

DayIndices == {0, 50, 90, 95}

PolicyDraws == {0, 9, 10, 19, 20, 99}

PolicyNoise == {-100, 0, 100}

PolicyCalls ==
    [fn : {"make_live_trading_decision"}, base_action : ModelOutputs,
     progress : BufferSizes, draw : PolicyDraws, noise : PolicyNoise]
    \cup
    [fn : {"simulate_rl_trading"}, base_action : ModelOutputs,
     progress : DayIndices, draw : PolicyDraws, noise : PolicyNoise]

PolStart == callIn \in PolicyCalls /\ callOut = NotCalled

\* live_trader.py lines 84-106: the clipped action goes to execute_action
\* and the same variable into add_experience
PolLive ==
    /\ callIn.fn = "make_live_trading_decision" /\ ~callOut.made
    /\ \E action \in {live_policy(callIn.base_action, callIn.progress,
                                  callIn.draw, callIn.noise)} :
          callOut' = [made |-> TRUE,
                      explored |-> callIn.draw < live_epsilon(callIn.progress),
                      executed |-> action, stored |-> action]
    /\ UNCHANGED callIn

\* simulator.py lines 57-77
PolSim ==
    /\ callIn.fn = "simulate_rl_trading" /\ ~callOut.made
    /\ \E action \in {sim_policy(callIn.base_action, callIn.progress,
                                 callIn.draw, callIn.noise)} :
          callOut' = [made |-> TRUE,
                      explored |-> callIn.draw < sim_epsilon(callIn.progress),
                      executed |-> action, stored |-> action]
    /\ UNCHANGED callIn

PolInit == PolStart /\ EnvIdle /\ BufIdle /\ TrkIdle /\ SbIdle /\ CycIdle

PolNext ==
    \/ PolLive /\ UNCHANGED <<envVars, bufVars, trkVars, sbVars, cycVars>>
    \/ PolSim /\ UNCHANGED <<envVars, bufVars, trkVars, sbVars, cycVars>>

SpecPolicy == PolInit /\ [][PolNext]_vars

\* C20: the action passed to execute_action and stored in the transition
\* lies in [-1, 1] (here -100..100 hundredths) on the exploration branch
\* and on the pure model branch, in the live trader and in the simulator.
C20_ActionWithinUnitRange ==
    callOut.made =>
        /\ callOut.executed \in -Scale..Scale
        /\ callOut.stored = callOut.executed

\* a blend above 1 on the exploration branch of the simulator is cut to
\* exactly 1
C20_Witness ==
    /\ callOut.made
    /\ callIn.fn = "simulate_rl_trading"
    /\ callOut.explored
    /\ (70 * callIn.base_action + 30 * callIn.noise) \div 100 > Scale
    /\ callOut.executed = Scale

---------------------------------------------------------------------------
(* The simulator's loop over the trading days (simulator.py 22-87), next   *)
(* to single calls of the live policy.  The buffer is followed by its      *)
(* size: every state the loop stores comes from create_state_              *)
(* representation, so every add extends the buffer until the deque is      *)
(* full.  The environment feeds only the model input, and the model's      *)
(* output is drawn freely each day.                                        *)

MaxSimDays == 95

\* sizes of the buffer after load (line 25)
SimLoadedSizes == {0, 30, BUFFER_SIZE}

SimRuns ==
    [fn : {"simulate_rl_trading"}, loaded : SimLoadedSizes,
     total_experiences : {MaxSimDays}]

LivePolicyCalls == {c \in PolicyCalls : c.fn = "make_live_trading_decision"}

SimStart == callIn \in (SimRuns \cup LivePolicyCalls) /\ callOut = NotCalled

\* one iteration of the loop at line 34: lines 54-64 choose the action,
\* line 66 executes it, lines 75-77 store it
SimDay ==
    /\ callIn.fn = "simulate_rl_trading"
    /\ \E day_idx \in {IF callOut.made THEN callOut.day_idx + 1 ELSE 0},
          size \in {IF callOut.made THEN callOut.size_after ELSE callIn.loaded} :
          /\ day_idx < callIn.total_experiences
          /\ \E base_action \in ModelOutputs, draw \in PolicyDraws,
                noise \in PolicyNoise :
                \E action \in {sim_policy(base_action, day_idx, draw, noise)} :
                   callOut' = [made |-> TRUE, day_idx |-> day_idx,
                               size |-> size, base_action |-> base_action,
                               draw |-> draw, noise |-> noise,
                               explored |-> draw < sim_epsilon(day_idx),
                               executed |-> action, stored |-> action,
                               size_after |-> Min(BUFFER_SIZE, size + 1)]
    /\ UNCHANGED callIn

SimInit == SimStart /\ EnvIdle /\ BufIdle /\ TrkIdle /\ SbIdle /\ CycIdle

SimNext ==
    \/ SimDay /\ UNCHANGED <<envVars, bufVars, trkVars, sbVars, cycVars>>
    \/ PolLive /\ UNCHANGED <<envVars, bufVars, trkVars, sbVars, cycVars>>

SpecSim == SimInit /\ [][SimNext]_vars

\* the exploration probability as the claim words it, in hundredths
ClaimedEpsilon(floor, buffer_size) == Max(floor, 100 - buffer_size)

\* the blend as the claim words it, weight in hundredths
ClaimedBlend(weight, base_action, noise) ==
    ((100 - weight) * base_action + weight * noise) \div 100

LiveExploresAsClaimed ==
    (callOut.made /\ callIn.fn = "make_live_trading_decision") =>
        /\ callOut.explored = (callIn.draw < ClaimedEpsilon(20, callIn.progress))
        /\ callOut.explored =>
              callOut.executed =
                  clip(ClaimedBlend(40, callIn.base_action, callIn.noise))

SimBlendsAsClaimed ==
    (callOut.made /\ callIn.fn = "simulate_rl_trading" /\ callOut.explored) =>
        callOut.executed =
            clip(ClaimedBlend(30, callOut.base_action, callOut.noise))

\* C21 (as claimed): at both call sites the exploration probability is
\* max(floor, 1 - buffer_size/100) of the current replay-buffer size, with
\* floor 0.2 and weight 0.4 in the live trader and floor 0.1 and weight 0.3
\* in the simulator.
C21_EpsilonFromBufferSize ==
    /\ LiveExploresAsClaimed
    /\ SimBlendsAsClaimed
    /\ (callOut.made /\ callIn.fn = "simulate_rl_trading") =>
          callOut.explored = (callOut.draw < ClaimedEpsilon(10, callOut.size))

---------------------------------------------------------------------------
(* The portfolio scalars of the states the live trader stores (Spec)       *)

\* the three scalars of a state are normalized for this position and price:
\* the price is 1, cash and position value are fractions of the total
Normalized(view, cash, shares, price) ==
    /\ view.current_price.num = view.current_price.den
    /\ RatEq(view.portfolio_cash,
             [num |-> cash, den |-> cash + shares * price])
    /\ RatEq(view.portfolio_shares,
             [num |-> shares * price, den |-> cash + shares * price])

\* the transition a completed run put last into the saved buffer
StoredLast == bufferFile.data[Len(bufferFile.data)]

StoredByLastRun ==
    /\ last.outcome = "completed" /\ last.gained
    /\ last.position.cash + last.position.shares * last.prices[1] > 0

\* the state of the stored transition is normalized at the open price
StoredStateNormalized ==
    StoredByLastRun =>
        Normalized(StoredLast.state, last.position.cash,
                   last.position.shares, last.prices[1])

\* C22 (as claimed): in the state and in the next_state of every
\* transition the live trader stores, current_price is exactly 1.0 and
\* portfolio_cash and portfolio_shares are fractions of the total value,
\* the next_state being normalized from the post-trade cash and shares and
\* the close price.
C22_StoredStatesNormalized ==
    StoredByLastRun =>
        /\ Normalized(StoredLast.state, last.position.cash,
                      last.position.shares, last.prices[1])
        /\ Normalized(StoredLast.next_state, last.trade.cash,
                      last.trade.shares, last.prices[2])

---------------------------------------------------------------------------
(* The reward shaping of execute_action (SpecEnv)                          *)

Executed == envCall.made /\ envRes.outcome = "returned"

\* shares were bought or sold by the call
Traded == envShares # envCall.shares

InDeadZone(action) == action <= HoldThreshold /\ action >= -HoldThreshold

\* the penalty is applied exactly inside the dead zone, and exactly one of
\* bonus and penalty is applied
ShapingByActionOnly ==
    Executed =>
        /\ envRes.hold = InDeadZone(envCall.action)
        /\ (envRes.bonus > 0) = ~envRes.hold
        /\ envRes.bonus > 0 => envRes.bonus = Abs(envCall.action)

\* C23 (as claimed): the bonus |action| * 0.5 is added only when shares
\* were actually bought or sold, the 0.1 penalty is subtracted exactly
\* when the action is inside the dead zone, and never both or neither.
C23_BonusOnlyWhenTraded ==
    Executed =>
        /\ envRes.bonus > 0 => Traded
        /\ envRes.hold = InDeadZone(envCall.action)
        /\ (envRes.bonus > 0) = ~envRes.hold


\* the call was made on a portfolio worth nothing at the close
EmptyPortfolioCall ==
    /\ envCall.made
    /\ get_portfolio_value(envCall.cash, envCall.shares, envCall.close) = 0

\* C24 (as claimed): when the pre-trade valuation cash + shares * close is
\* 0, execute_action returns normally, the base reward counting as 0, so
\* that the reward is the shaping bonus or penalty alone.
C24_ZeroBaselineGuarded ==
    EmptyPortfolioCall =>
        /\ envRes.outcome = "returned"
        /\ envRes.kind = "finite"
        /\ RatEq(envRes.reward,
                 IF envRes.hold THEN HoldPenalty
                 ELSE [num |-> envRes.bonus, den |-> 200])

---------------------------------------------------------------------------
(* morning_trader.py: the morning decision, called once on the files a     *)
(* day may begin with.                                                     *)

\* morning_trader.load_initial_portfolio (lines 43-54): no range check,
\* and every exception gives the defaults
morning_load_initial_portfolio(file) ==
    IF file.kind # "json"
    THEN [cash |-> 1500, shares |-> 0]
    ELSE [cash |-> dict_get(file, "cash", 1500),
          shares |-> dict_get(file, "shares", 0)]

action_type_of(action) ==
    IF action > HoldThreshold THEN "BUY"
    ELSE IF action < -HoldThreshold THEN "SELL" ELSE "HOLD"

\* the three persisted files, as a decision finds and leaves them
FilesNow ==
    [buffer |-> bufferFile, session |-> sessionFile,
     portfolio |-> portfolioFile]

\* a morning decision that trades and learns the way the evening run does
make_morning_trading_decision_trading(files, initial_cash, initial_shares, base_action, current_price, day) ==
    LET buffer0 == load(<<>>, BUFFER_SIZE, files.buffer)
        action  == clip(base_action)
        state   == current_state_of(MAX_DAYS_HISTORY,
                       [cash |-> initial_cash, shares |-> initial_shares],
                       current_price)
        trade   == execute_action(initial_cash, initial_shares, action,
                                  current_price, current_price, "nonfinite")
        exp     == Experience(state, action, RewardOf(trade),
                              next_state_of(state, trade, current_price), FALSE)
        buffer  == add_experience(buffer0, BUFFER_SIZE, exp)
    IN  [result |-> [action |-> action, action_type |-> action_type_of(action),
                     portfolio_value |-> trade.value, reward |-> 0,
                     cash |-> trade.cash, shares |-> trade.shares,
                     current_price |-> current_price],
         env    |-> [cash |-> trade.cash, shares |-> trade.shares],
         buffer_size |-> Len(buffer),
         trained |-> Len(buffer) >= MinTrainSize,
         files  |-> [buffer |-> save(buffer),
                     session |-> record_trading_session(files.session, day,
                                     action, RewardOf(trade), trade.value),
                     portfolio |-> PortfolioJson(trade.value, trade.cash,
                                       trade.shares, current_price, "")]]

\* lines 58-127: the environment is constructed (65) and only valued
\* (82, 112), the buffer is loaded (68-73) and only sized, the model is
\* only asked (102-106); no file is opened for writing
make_morning_trading_decision(files, initial_cash, initial_shares, base_action, current_price, day) ==
    LET buffer0 == load(<<>>, BUFFER_SIZE, files.buffer)
        action  == clip(base_action)
        value   == get_portfolio_value(initial_cash, initial_shares,
                                       current_price)
    IN  [result |-> [action |-> action, action_type |-> action_type_of(action),
                     portfolio_value |-> value, reward |-> 0,
                     cash |-> initial_cash, shares |-> initial_shares,
                     current_price |-> current_price],
         env    |-> [cash |-> initial_cash, shares |-> initial_shares],
         buffer_size |-> Len(buffer0),
         trained |-> FALSE,
         files  |-> files]

MorningSessionFiles ==
    {NoSessionFile, record_trading_session(NoSessionFile, 1, 60, ZeroReward, 1500)}

MorningCalls ==
    [fn : {"make_morning_trading_decision"}, base_action : {-150, -60, 0, 60},
     current_price : {10, 12}, day : {1, 2}]

MornStart ==
    /\ clock = 1
    /\ bufferFile \in InitialBufferFiles \cup {CorruptFile}
    /\ sessionFile \in MorningSessionFiles
    /\ portfolioFile \in InitialPortfolioFiles \cup {UnreadableFile}
    /\ last = [outcome |-> "none"]
    /\ appended = <<>> /\ firstSize = <<>>
    /\ callIn \in MorningCalls
    /\ callOut = NotCalled

\* morning_trader.main, lines 274-281: the portfolio is loaded and the
\* decision made
MorningDecision ==
    /\ callIn.fn = "make_morning_trading_decision" /\ ~callOut.made
    /\ \E loaded \in {morning_load_initial_portfolio(portfolioFile)} :
          \E d \in {make_morning_trading_decision(FilesNow, loaded.cash,
                        loaded.shares, callIn.base_action,
                        callIn.current_price, callIn.day)} :
             /\ callOut' = [made |-> TRUE, loaded |-> loaded,
                            result |-> d.result, env |-> d.env,
                            buffer_size |-> d.buffer_size,
                            trained |-> d.trained]
             /\ bufferFile' = d.files.buffer
             /\ sessionFile' = d.files.session
             /\ portfolioFile' = d.files.portfolio
    /\ UNCHANGED <<callIn, clock, last, appended, firstSize>>

MornInit == MornStart /\ EnvIdle /\ BufIdle /\ TrkIdle /\ SbIdle

MornNext == MorningDecision /\ UNCHANGED <<envVars, bufVars, trkVars, sbVars>>

SpecMorning == MornInit /\ [][MornNext]_vars

\* C25: the morning decision never adds to or saves the experience
\* buffer, never trains, never records a session, never writes the
\* portfolio file, and leaves the environment's cash and shares equal to
\* the loaded portfolio.
C25_MorningDecisionReadOnly ==
    [][(callOut'.made /\ ~callOut.made) =>
          /\ UNCHANGED PersistedFiles
          /\ ~callOut'.trained
          /\ callOut'.env = callOut'.loaded
          /\ callOut'.buffer_size = Len(load(<<>>, BUFFER_SIZE, bufferFile))]_vars

\* a BUY recommendation on a day that has a buffer file, a portfolio that
\* could afford shares and no session: the evening run would trade here
C25_Witness ==
    /\ callOut.made
    /\ callOut.result.action_type = "BUY"
    /\ callOut.env.cash >= callOut.result.current_price
    /\ bufferFile.kind = "list"
    /\ sessionFile = NoSessionFile

---------------------------------------------------------------------------
(* What a completed run leaves in the portfolio file (Spec)                *)

PostTrade == [cash |-> last.trade.cash, shares |-> last.trade.shares]

WrittenPortfolio == [cash |-> portfolioFile.cash, shares |-> portfolioFile.shares]

WithinLoadLimits(position) ==
    position.cash <= 1000000 /\ position.shares <= 1000

\* C27 (as claimed): after every completed, non-skipped cycle the cash and
\* shares written to the portfolio file are the environment's post-trade
\* cash and shares, so that the next cycle starts from exactly that state.
C27_NextCycleStartsFromPostTrade ==
    last.outcome = "completed" =>
        /\ WrittenPortfolio = PostTrade
        /\ load_initial_portfolio(portfolioFile) = PostTrade

\* C27 (amended): the written cash and shares are the post-trade ones; the
\* next cycle starts from them when they are within the loader's limits
\* (cash <= 1,000,000 and shares <= 1,000) and from the defaults otherwise.
C27_WrittenPortfolioIsPostTrade ==
    last.outcome = "completed" =>
        /\ WrittenPortfolio = PostTrade
        /\ load_initial_portfolio(portfolioFile) =
              IF WithinLoadLimits(PostTrade) THEN PostTrade
              ELSE [cash |-> DEFAULT_INITIAL_CASH,
                    shares |-> DEFAULT_INITIAL_SHARES]

\* a completed run that bought shares and whose transition pushed the
\* oldest one out of a full buffer
C27_Witness ==
    /\ last.outcome = "completed"
    /\ last.gained /\ last.size0 = BUFFER_SIZE
    /\ last.trade.bought > 0
    /\ WrittenPortfolio = PostTrade

---------------------------------------------------------------------------
(* Conservation of value at the open price (SpecEnv)                       *)

\* C28: for every action, cash + shares * open_price after execute_action
\* equals cash + shares * open_price before it; a trade only converts cash
\* into shares or back at the open price.
C28_ValueAtOpenConserved ==
    envCall.made =>
        get_portfolio_value(envCash, envShares, envCall.open)
            = get_portfolio_value(envCall.cash, envCall.shares, envCall.open)

\* the second call in a row moved shares at an open price other than the
\* close price
C28_Witness ==
    /\ envCall.made /\ envCalls = 2
    /\ envShares # envCall.shares
    /\ envCash # envCall.cash
    /\ envCall.open # envCall.close

---------------------------------------------------------------------------
(* The dates of the guard check and of the record (Spec)                   *)

\* C29 (as claimed): within one decision cycle the date has_traded_today
\* checked and the date record_trading_session records under are the same
\* date, even if the clock advances between the two calls.
C29_RecordsUnderCheckedDate ==
    last.outcome = "completed" => last.recorded = last.day

---------------------------------------------------------------------------
(* The exploration probability of the live trader (Spec)                   *)

\* the run got as far as choosing its action
ChoseAction == last.outcome = "completed"

\* C30: in the live trader epsilon = max(0.2, 1 - size/100) stays within
\* [0.5, 1.0], since the buffer holds at most 50 transitions; the 0.2
\* floor is never the binding value.
C30_LiveEpsilonAtLeastHalf ==
    ChoseAction =>
        /\ last.size0 <= BUFFER_SIZE
        /\ live_epsilon(last.size0) \in 50..100
        /\ live_epsilon(last.size0) = 100 - last.size0

\* a run on a full buffer: epsilon is exactly 0.5
C30_Witness ==
    /\ ChoseAction
    /\ last.size0 = BUFFER_SIZE
    /\ live_epsilon(last.size0) = 50

---------------------------------------------------------------------------
(* Two invocations of main() on the same date, running side by side: each  *)
(* step is one access to a file, or the computation between two accesses.  *)
(* Neither main.py nor live_trader.py takes a lock.                        *)

Procs == {1, 2}

Other(p) == 3 - p

RacePrices == <<10, 12>>

NoTrade == [cash |-> 0, shares |-> 0, value |-> 0]

\* an invocation that has not begun
NotBegun ==
    [pc |-> "start", position |-> [cash |-> 0, shares |-> 0],
     buffer |-> <<>>, action |-> 0, reward |-> ZeroReward,
     trade |-> NoTrade, traded |-> FALSE]

\* one of the invocations is between its first and its last step
Running(p) == callOut.proc[p].pc \notin {"start", "done"}

\* the invocation p moves on to pc with its locals changed to local; the
\* step overlaps when the other invocation is under way
Step(p, local) ==
    /\ callOut' = [callOut EXCEPT !.proc[p] = local,
                                  !.overlapped = @ \/ Running(Other(p))]
    /\ UNCHANGED <<callIn, clock, last, appended, firstSize>>

RaceStart ==
    /\ clock = 1
    /\ bufferFile \in {AbsentFile, SavedBuffer(9)}
    /\ sessionFile = NoSessionFile
    /\ portfolioFile \in {NoPortfolioFile, PortfolioJson(50, 0, 5, 10, "")}
    /\ last = [outcome |-> "none"]
    /\ appended = <<>> /\ firstSize = <<>>
    /\ callIn = [fn |-> "main",
                 size0 |-> Len(load(<<>>, BUFFER_SIZE, bufferFile))]
    /\ callOut = [made |-> TRUE, overlapped |-> FALSE,
                  proc |-> [p \in Procs |-> NotBegun]]

\* main.py line 43
RaceLoadPortfolio(p) ==
    /\ callOut.proc[p].pc = "start"
    /\ Step(p, [callOut.proc[p] EXCEPT
                   !.pc = "guard",
                   !.position = load_initial_portfolio(portfolioFile)])
    /\ UNCHANGED PersistedFiles

\* live_trader.py line 26: has_traded_today()
RaceCheck(p) ==
    /\ callOut.proc[p].pc = "guard"
    /\ Step(p, [callOut.proc[p] EXCEPT
                   !.pc = IF has_traded_today(sessionFile, clock)
                          THEN "skip" ELSE "checked"])
    /\ UNCHANGED PersistedFiles

\* lines 27-47: the already-traded path writes the portfolio status
RaceSkip(p) ==
    /\ callOut.proc[p].pc = "skip"
    /\ \E position \in {callOut.proc[p].position} :
          /\ portfolioFile' = PortfolioJson(
                 position.cash + position.shares * RacePrices[2],
                 position.cash, position.shares, RacePrices[2], NoTradeStatus)
          /\ Step(p, [callOut.proc[p] EXCEPT !.pc = "returned"])
    /\ UNCHANGED <<bufferFile, sessionFile>>

\* lines 49-53: experience_buffer.load
RaceLoadBuffer(p) ==
    /\ callOut.proc[p].pc = "checked"
    /\ Step(p, [callOut.proc[p] EXCEPT
                   !.pc = "loaded",
                   !.buffer = load(<<>>, BUFFER_SIZE, bufferFile)])
    /\ UNCHANGED PersistedFiles

\* lines 55-110: state, policy, execute_action and add_experience, all on
\* the invocation's own environment and buffer
RaceDecide(p) ==
    /\ callOut.proc[p].pc = "loaded"
    /\ \E base_action \in BaseActions, draw \in RandomDraws,
          noise \in NoiseDraws, local \in {callOut.proc[p]} :
          \E state \in {current_state_of(MIN_HISTORICAL_DATA_POINTS,
                                         local.position, RacePrices[1])},
             action \in {live_policy(base_action, Len(local.buffer),
                                     draw, noise)} :
             \E trade \in {execute_action(local.position.cash,
                               local.position.shares, action,
                               RacePrices[1], RacePrices[2], "raise")} :
                /\ trade.outcome = "returned"
                /\ Step(p, [local EXCEPT
                       !.pc = "decided",
                       !.action = action,
                       !.reward = RewardOf(trade),
                       !.trade = [cash |-> trade.cash,
                                  shares |-> trade.shares,
                                  value |-> trade.value],
                       !.traded = TRUE,
                       !.buffer = add_experience(local.buffer, BUFFER_SIZE,
                                      Experience(state, action,
                                          RewardOf(trade),
                                          next_state_of(state, trade,
                                                        RacePrices[2]),
                                          FALSE))])
    /\ UNCHANGED PersistedFiles

\* line 114: experience_buffer.save
RaceSaveBuffer(p) ==
    /\ callOut.proc[p].pc = "decided"
    /\ bufferFile' = save(callOut.proc[p].buffer)
    /\ Step(p, [callOut.proc[p] EXCEPT !.pc = "saved"])
    /\ UNCHANGED <<sessionFile, portfolioFile>>

\* line 131: record_trading_session
RaceRecord(p) ==
    /\ callOut.proc[p].pc = "saved"
    /\ \E local \in {callOut.proc[p]} :
          sessionFile' = record_trading_session(sessionFile, clock,
                             local.action, local.reward, local.trade.value)
    /\ Step(p, [callOut.proc[p] EXCEPT !.pc = "returned"])
    /\ UNCHANGED <<bufferFile, portfolioFile>>

\* main.py lines 50-64: the final position is written
RaceSavePortfolio(p) ==
    /\ callOut.proc[p].pc = "returned"
    /\ \E local \in {callOut.proc[p]} :
          \E final \in {final_position(IF local.traded THEN local.buffer
                                       ELSE <<>>, local.position)} :
             portfolioFile' = save_final_portfolio(
                 IF local.traded THEN local.trade.value
                 ELSE local.position.cash
                      + local.position.shares * RacePrices[2],
                 final.shares, RacePrices[2], final.cash)
    /\ Step(p, [callOut.proc[p] EXCEPT !.pc = "done"])
    /\ UNCHANGED <<bufferFile, sessionFile>>

RaceInit == RaceStart /\ EnvIdle /\ BufIdle /\ TrkIdle /\ SbIdle

RaceNext ==
    \/ \E p \in Procs : RaceLoadPortfolio(p) /\ UNCHANGED <<envVars, bufVars, trkVars, sbVars>>
    \/ \E p \in Procs : RaceCheck(p) /\ UNCHANGED <<envVars, bufVars, trkVars, sbVars>>
    \/ \E p \in Procs : RaceSkip(p) /\ UNCHANGED <<envVars, bufVars, trkVars, sbVars>>
    \/ \E p \in Procs : RaceLoadBuffer(p) /\ UNCHANGED <<envVars, bufVars, trkVars, sbVars>>
    \/ \E p \in Procs : RaceDecide(p) /\ UNCHANGED <<envVars, bufVars, trkVars, sbVars>>
    \/ \E p \in Procs : RaceSaveBuffer(p) /\ UNCHANGED <<envVars, bufVars, trkVars, sbVars>>
    \/ \E p \in Procs : RaceRecord(p) /\ UNCHANGED <<envVars, bufVars, trkVars, sbVars>>
    \/ \E p \in Procs : RaceSavePortfolio(p) /\ UNCHANGED <<envVars, bufVars, trkVars, sbVars>>

SpecRace == RaceInit /\ [][RaceNext]_vars

AllDone == \A p \in Procs : callOut.proc[p].pc = "done"

Trades == Cardinality({p \in Procs : callOut.proc[p].traded})

\* the transitions the buffer file gained over the two invocations
FileGained ==
    Len(load(<<>>, BUFFER_SIZE, bufferFile)) - callIn.size0

\* C26: the guard's check-then-act is not atomic.  Invocations of the same
\* date that do not overlap trade exactly once and the file gains exactly
\* one transition; whenever both have traded they overlapped, both wrote
\* the buffer and the session, and the file holds a lost transition (one
\* gained for two trades) or a duplicate (two for the date), with a single
\* session for the date.
C26_GuardCheckThenActNotAtomic ==
    AllDone =>
        /\ has_traded_today(sessionFile, clock)
        /\ Trades >= 1
        /\ ~callOut.overlapped => (Trades = 1 /\ FileGained = 1)
        /\ Trades = 2 => (callOut.overlapped /\ FileGained \in {1, 2})

\* both invocations passed the guard before either recorded, both traded,
\* and the transition of one of them is lost
C26_Witness ==
    /\ AllDone
    /\ Trades = 2
    /\ FileGained = 1

\* both traded and the file gained two transitions for the date
DuplicateTransition == AllDone /\ Trades = 2 /\ FileGained = 2

===========================================================================
